---- MODULE Spec2Model ----
(***************************************************************************)
(* The ledger-checked scheduler of chapter3/src/tracking_access.rs.        *)
(*                                                                         *)
(* Program state: Scheduler.systems, Scheduler.resources and               *)
(* Scheduler.accesses.  Scheduler::run is followed step by step (the for    *)
(* loop, each P::accesses call, each P::retrieve call, the call of the      *)
(* wrapped closure, the final clear), a panic unwinds out of run and leaves *)
(* the scheduler as it was at the panic.  The remaining variables are       *)
(* history variables that record what a round did.                          *)
(***************************************************************************)
EXTENDS Integers, Sequences, FiniteSets, TLC

(* ------------------------------ bounds --------------------------------- *)
MaxSystems == 2
NumVals == 2

(* --------------------------- program constants ------------------------- *)
MaxArity == 4

Types == {"A", "B"}
Vals == 0 .. (NumVals - 1)
Read == "Read"
Write == "Write"
Access == {Read, Write}
None == "None"

(* A parameter type: Res<T> is (T, Read), ResMut<T> is (T, Write). *)
Res(t) == [ty |-> t, mode |-> Read]
ResMut(t) == [ty |-> t, mode |-> Write]

(* The registered closures: parameter lists of arity 0 to MaxArity. *)
(* Every closure adds one (modulo NumVals) through each ResMut it is given *)
(* and reads every view it is given.                                       *)
SystemCatalogue ==
    { << >>,
      << Res("A") >>,
      << ResMut("A") >>,
      << ResMut("B") >>,
      << Res("A"), Res("B") >>,
      << Res("A"), ResMut("A") >>,
      << ResMut("A"), Res("A") >>,
      << ResMut("A"), ResMut("A") >>,
      << Res("A"), Res("A"), ResMut("B") >>,
      << ResMut("B"), Res("A"), Res("A"), Res("A") >> }

VARIABLES
    systems,        \* Scheduler.systems: sequence of parameter lists
    resources,      \* Scheduler.resources: set of [ty, val] entries
    accesses,       \* Scheduler.accesses: Types -> {None, Read, Write}
    phase,          \* position in Scheduler::run
    sysIdx,         \* index of the system the for loop is at
    paramIdx,       \* index of the parameter being declared / retrieved
    views,          \* the views bound so far for the current system
    trace,          \* history: accesses, retrieve and call events of the round
    roundStart,     \* history: resources when run was entered
    entryAccesses,  \* history: accesses when run was entered
    outcome,        \* history: how the current / last round ended
    prev,           \* history: summary of the round before
    sysChanged,     \* history: add_system was called since the last run
    touched,        \* history: add_system or add_resource was called since
    lastAdded       \* history: per type the set holding the value added
                    \* last, empty before the first add of the type and
                    \* once a closure held a ResMut of the type since

vars == << systems, resources, accesses, phase, sysIdx, paramIdx, views,
           trace, roundStart, entryAccesses, outcome, prev, sysChanged,
           touched, lastAdded >>

(* ------------------------------ TypeMap -------------------------------- *)
EmptyTypeMap == {}

ContainsKey(map, t) == \E e \in map : e.ty = t

\* resources[&TypeId::of::<T>()] followed by the downcast
Index(map, t) == (CHOOSE e \in map : e.ty = t).val

\* faulty variant of the insert: the entry held for the key is kept
TypeMapInsert_KeepOld(map, t, v) == map \cup { [ty |-> t, val |-> v] }

\* HashMap::insert on the TypeMap
TypeMapInsert(map, t, v) ==
    { e \in map : e.ty # t } \cup { [ty |-> t, val |-> v] }

(* ------------------------------ AccessMap ------------------------------ *)
EmptyAccessMap == [t \in Types |-> None]

\* faulty variant of Res::accesses: the entry is made but the assert_eq is
\* missing, a Read recorded over a held Write goes through
Res_accesses_NoAssert(access, t) ==
    LET after == IF access[t] = None THEN [access EXCEPT ![t] = Read]
                 ELSE access
    IN [ access |-> after, ok |-> TRUE, held |-> access[t], msg |-> None ]

\* faulty variant of Res::accesses: the held mode is checked with get, the
\* Read access is not recorded
Res_accesses_NoRecord(access, t) ==
    [ access |-> access,
      ok     |-> access[t] # Write,
      held   |-> access[t],
      msg    |-> IF access[t] # Write THEN None
                 ELSE "mutably and immutably" ]

\* faulty variant of Res::accesses: written like ResMut::accesses, any
\* entry already held for the type is a conflict
Res_accesses_Exclusive(access, t) ==
    [ access |-> [access EXCEPT ![t] = Read],
      ok     |-> access[t] = None,
      held   |-> access[t],
      msg    |-> IF access[t] = None THEN None
                 ELSE "mutably and immutably" ]

\* Res::accesses: *access.entry(T).or_insert(Read) must equal Read
Res_accesses(access, t) ==
    LET after == IF access[t] = None THEN [access EXCEPT ![t] = Read]
                 ELSE access
    IN [ access |-> after,
         ok     |-> after[t] = Read,
         held   |-> access[t],
         msg    |-> IF after[t] = Read THEN None
                    ELSE "assertion left == right failed: mutably and immutably, left: Write, right: Read" ]

\* faulty variant of ResMut::accesses: the Some(Access::Read) arm is missing
ResMut_accesses_NoReadArm(access, t) ==
    LET old == access[t]
    IN [ access |-> [access EXCEPT ![t] = Write],
         ok     |-> old # Write,
         held   |-> old,
         msg    |-> IF old = Write THEN "mutably twice" ELSE None ]

\* faulty variant of ResMut::accesses: the Some(Access::Write) arm is missing
ResMut_accesses_NoWriteArm(access, t) ==
    LET old == access[t]
    IN [ access |-> [access EXCEPT ![t] = Write],
         ok     |-> old # Read,
         held   |-> old,
         msg    |-> IF old = Read THEN "mutably and immutably" ELSE None ]

\* faulty variant of ResMut::accesses: one arm, Some(_), with the message
\* of the Read arm
ResMut_accesses_OneArm(access, t) ==
    LET old == access[t]
    IN [ access |-> [access EXCEPT ![t] = Write],
         ok     |-> old = None,
         held   |-> old,
         msg    |-> IF old = None THEN None ELSE "mutably and immutably" ]

\* ResMut::accesses: access.insert(T, Write), then match on the old value
ResMut_accesses(access, t) ==
    LET old == access[t]
    IN [ access |-> [access EXCEPT ![t] = Write],
         ok     |-> old = None,
         held   |-> old,
         msg    |-> IF old = Read THEN "mutably and immutably"
                    ELSE IF old = Write THEN "mutably twice"
                    ELSE None ]

\* P::accesses for a parameter type P
Param_accesses(access, p) ==
    IF p.mode = Read THEN Res_accesses(access, p.ty)
    ELSE ResMut_accesses(access, p.ty)

\* faulty variant of the clear: nothing is removed
AccessesClear_Noop(access) == access

\* faulty variant of the clear: only the Read entries are removed
AccessesClear_KeepWrites(access) ==
    [t \in Types |-> IF access[t] = Write THEN Write ELSE None]

\* self.accesses.clear()
AccessesClear(access) == EmptyAccessMap

(* ------------------------------ retrieve ------------------------------- *)
\* Res::retrieve / ResMut::retrieve: index the map (panics when the key is
\* absent) and wrap the reference in a view
RetrieveOk(map, p) == ContainsKey(map, p.ty)

Retrieve(map, p) == [ty |-> p.ty, mode |-> p.mode]

\* Deref for Res and ResMut: read through the reference
Deref(map, view) == Index(map, view.ty)

\* faulty variant of DerefMut: the write goes to a copy and is lost
DerefMutWrite_Lost(map, view, v) == map

\* faulty variant of DerefMut: the entry is taken out of the map
DerefMutWrite_Take(map, view, v) == { e \in map : e.ty # view.ty }

\* DerefMut for ResMut: write through the reference
DerefMutWrite(map, view, v) == TypeMapInsert(map, view.ty, v)

(* ------------------------------ closures ------------------------------- *)
RECURSIVE CallBody(_, _, _)
\* faulty variant of the closure call: the closure reaches every entry of
\* the store, whatever views it was given
CallBody_WritesAll(map, vs, i) ==
    { [ty |-> e.ty, val |-> (e.val + 1) % NumVals] : e \in map }

\* the closure body: *x = (*x + 1) % NumVals for every ResMut x, in
\* parameter order
CallBody(map, vs, i) ==
    IF i > Len(vs) THEN map
    ELSE IF vs[i].mode = Write
         THEN CallBody(DerefMutWrite(map, vs[i],
                                     (Deref(map, vs[i]) + 1) % NumVals),
                       vs, i + 1)
         ELSE CallBody(map, vs, i + 1)

\* what the closure reads on entry, one value per view
Observe(map, vs) == [i \in 1 .. Len(vs) |-> Deref(map, vs[i])]

(* --------------------------- history views ----------------------------- *)
IsAccesses(e) == e.ev = "accesses"
IsRetrieve(e) == e.ev = "retrieve"
IsCall(e) == e.ev = "call"

\* positions of the trace holding each kind of event
AccessesAt == { i \in DOMAIN trace : IsAccesses(trace[i]) }
RetrieveAt == { i \in DOMAIN trace : IsRetrieve(trace[i]) }
CallAt == { i \in DOMAIN trace : IsCall(trace[i]) }

\* the closures called in this round, in call order
Invoked == [i \in 1 .. Len(SelectSeq(trace, IsCall)) |->
               SelectSeq(trace, IsCall)[i].sys]

\* a round has ended and nothing was registered since: its record is whole
RoundOver == phase = "Idle" /\ outcome.kind # "none" /\ ~touched

(* ------------------------------- Init ---------------------------------- *)
NoOutcome ==
    [kind |-> "none", ty |-> None, msg |-> None, sys |-> 0, invoked |-> << >>]

\* what is kept of the record of a round once the scheduler is changed again
Forget(o) ==
    [NoOutcome EXCEPT !.kind = o.kind,
                      !.invoked = IF o.kind = "completed" THEN o.invoked
                                  ELSE << >>]

\* no record of a round before
NoPrev == [kind |-> "none", same |-> FALSE, invoked |-> << >>]

Init ==
    /\ systems = << >>
    /\ resources = EmptyTypeMap
    /\ accesses = EmptyAccessMap
    /\ phase = "Idle"
    /\ sysIdx = 0
    /\ paramIdx = 0
    /\ views = << >>
    /\ trace = << >>
    /\ roundStart = EmptyTypeMap
    /\ entryAccesses = EmptyAccessMap
    /\ outcome = NoOutcome
    /\ prev = NoPrev
    /\ sysChanged = FALSE
    /\ touched = FALSE
    /\ lastAdded = [t \in Types |-> {}]

(* ------------------------------ actions -------------------------------- *)
\* faulty variant of add_system: a system is registered only when the store
\* holds every type its parameters name
AddSystem_Validating(s) ==
    /\ phase = "Idle"
    /\ Len(systems) < MaxSystems
    /\ \A n \in DOMAIN s : ContainsKey(resources, s[n].ty)
    /\ systems' = Append(systems, s)
    /\ sysChanged' = TRUE
    /\ touched' = TRUE
    /\ trace' = << >>
    /\ roundStart' = EmptyTypeMap
    /\ entryAccesses' = EmptyAccessMap
    /\ outcome' = Forget(outcome)
    /\ prev' = NoPrev
    /\ UNCHANGED << resources, accesses, phase, sysIdx, paramIdx, views,
                    lastAdded >>

\* Scheduler::add_system
AddSystem(s) ==
    /\ phase = "Idle"
    /\ Len(systems) < MaxSystems
    /\ systems' = Append(systems, s)
    /\ sysChanged' = TRUE
    /\ touched' = TRUE
    /\ trace' = << >>
    /\ roundStart' = EmptyTypeMap
    /\ entryAccesses' = EmptyAccessMap
    /\ outcome' = Forget(outcome)
    /\ prev' = NoPrev
    /\ UNCHANGED << resources, accesses, phase, sysIdx, paramIdx, views,
                    lastAdded >>

\* Scheduler::add_resource
AddResource(t, v) ==
    /\ phase = "Idle"
    /\ resources' = TypeMapInsert(resources, t, v)
    /\ lastAdded' = [lastAdded EXCEPT ![t] = {v}]
    /\ touched' = TRUE
    /\ trace' = << >>
    /\ roundStart' = EmptyTypeMap
    /\ entryAccesses' = EmptyAccessMap
    /\ outcome' = Forget(outcome)
    /\ prev' = NoPrev
    /\ UNCHANGED << systems, accesses, phase, sysIdx, paramIdx, views,
                    sysChanged >>

\* entry of Scheduler::run
RunBegin ==
    /\ phase = "Idle"
    /\ phase' = "Loop"
    /\ sysIdx' = 0
    /\ paramIdx' = 0
    /\ trace' = << >>
    /\ roundStart' = resources
    /\ entryAccesses' = accesses
    /\ prev' = [kind |-> outcome.kind,
                same |-> ~sysChanged,
                invoked |-> IF outcome.kind = "completed" /\ ~sysChanged
                            THEN outcome.invoked ELSE << >>]
    /\ sysChanged' = FALSE
    /\ touched' = FALSE
    /\ outcome' = [NoOutcome EXCEPT !.kind = "running"]
    /\ UNCHANGED << systems, resources, accesses, views, lastAdded >>

\* faulty variant of the panic: the views bound so far are not dropped by
\* the unwinding
Panic_KeepViews(kind, t, msg) ==
    /\ phase' = "Idle"
    /\ views' = views
    /\ sysIdx' = 0
    /\ paramIdx' = 0
    /\ outcome' = [kind |-> kind, ty |-> t, msg |-> msg, sys |-> sysIdx,
                   invoked |-> Invoked]

\* the panic of a failed assertion, unwrap or index: run is left at once,
\* the views of the current system are dropped, nothing else is touched
Panic(kind, t, msg) ==
    /\ phase' = "Idle"
    /\ views' = << >>
    /\ sysIdx' = 0
    /\ paramIdx' = 0
    /\ outcome' = [kind |-> kind, ty |-> t, msg |-> msg, sys |-> sysIdx,
                   invoked |-> Invoked]

\* faulty variant of the macro expansion: each parameter is retrieved right
\* after its own accesses call
AfterAccesses_Interleaved(s, i) == "Retrieve"

\* phase after the accesses call of parameter i of parameter list s
AfterAccesses(s, i) == IF i < Len(s) THEN "Accesses" ELSE "Retrieve"

\* faulty variant of the macro expansion: the closure is called as soon as
\* the first parameter is retrieved
AfterRetrieve_EarlyCall(s, i) == "Call"

\* phase after the retrieve call of parameter i of parameter list s
AfterRetrieve(s, i) == IF i < Len(s) THEN "Retrieve" ELSE "Call"

\* faulty variant of the iteration: the last system is left out
IterHasNext_SkipLast(syss, i) == i + 1 < Len(syss)

\* self.systems.iter_mut(): is there a system after the first i ones
IterHasNext(syss, i) == i < Len(syss)

\* for system in self.systems.iter_mut(): the next system, if any
NextSystem ==
    /\ phase = "Loop"
    /\ IterHasNext(systems, sysIdx)
    /\ sysIdx' = sysIdx + 1
    /\ paramIdx' = 1
    /\ phase' = IF Len(systems[sysIdx + 1]) = 0 THEN "Call" ELSE "Accesses"
    /\ UNCHANGED << systems, resources, accesses, views, trace, roundStart,
                    entryAccesses, outcome, prev, sysChanged, touched,
                    lastAdded >>

\* $params::accesses(accesses) for one parameter
Accesses ==
    /\ phase = "Accesses"
    /\ LET s == systems[sysIdx]
           p == s[paramIdx]
           r == Param_accesses(accesses, p)
       IN /\ accesses' = r.access
          /\ trace' = Append(trace,
                 [ev |-> "accesses", sys |-> sysIdx, idx |-> paramIdx,
                  ty |-> p.ty, mode |-> p.mode, ok |-> r.ok,
                  before |-> accesses, after |-> r.access])
          /\ IF r.ok
             THEN /\ phase' = AfterAccesses(s, paramIdx)
                  /\ paramIdx' = IF paramIdx < Len(s) THEN paramIdx + 1 ELSE 1
                  /\ UNCHANGED << views, outcome, sysIdx >>
             ELSE Panic("conflict", p.ty, r.msg)
    /\ UNCHANGED << systems, resources, roundStart, entryAccesses, prev,
                    sysChanged, touched, lastAdded >>

\* let $params = unsafe { $params::retrieve(resources) } for one parameter
RetrieveStep ==
    /\ phase = "Retrieve"
    /\ LET s == systems[sysIdx]
           p == s[paramIdx]
           ok == RetrieveOk(resources, p)
       IN /\ trace' = Append(trace,
                 [ev |-> "retrieve", sys |-> sysIdx, idx |-> paramIdx,
                  ty |-> p.ty, mode |-> p.mode, ok |-> ok,
                  held |-> accesses[p.ty]])
          /\ IF ok
             THEN /\ views' = Append(views, Retrieve(resources, p))
                  /\ phase' = AfterRetrieve(s, paramIdx)
                  /\ paramIdx' = IF paramIdx < Len(s) THEN paramIdx + 1 ELSE 1
                  /\ UNCHANGED << outcome, sysIdx >>
             ELSE Panic("missing", p.ty, None)
    /\ UNCHANGED << systems, resources, accesses, roundStart, entryAccesses,
                    prev, sysChanged, touched, lastAdded >>

\* call_inner(&mut self.f, $($params),*): the closure runs and returns, its
\* views are dropped
Call ==
    /\ phase = "Call"
    /\ resources' = CallBody(resources, views, 1)
    /\ trace' = Append(trace,
           [ev |-> "call", sys |-> sysIdx, views |-> views,
            obs |-> Observe(resources, views),
            pre |-> resources, post |-> resources'])
    /\ lastAdded' = [t \in Types |->
                        IF \E i \in 1 .. Len(views) :
                               views[i].ty = t /\ views[i].mode = Write
                        THEN {} ELSE lastAdded[t]]
    /\ views' = << >>
    /\ paramIdx' = 0
    /\ phase' = "Loop"
    /\ UNCHANGED << systems, accesses, sysIdx, roundStart, entryAccesses,
                    outcome, prev, sysChanged, touched >>

\* self.accesses.clear() and the return of Scheduler::run
RunEnd ==
    /\ phase = "Loop"
    /\ ~IterHasNext(systems, sysIdx)
    /\ accesses' = AccessesClear(accesses)
    /\ phase' = "Idle"
    /\ sysIdx' = 0
    /\ outcome' = [outcome EXCEPT !.kind = "completed", !.invoked = Invoked]
    /\ UNCHANGED << systems, resources, paramIdx, views, trace, roundStart,
                    entryAccesses, prev, sysChanged, touched, lastAdded >>

Next ==
    \/ \E s \in SystemCatalogue : AddSystem(s)
    \/ \E t \in Types, v \in Vals : AddResource(t, v)
    \/ RunBegin
    \/ NextSystem
    \/ Accesses
    \/ RetrieveStep
    \/ Call
    \/ RunEnd

Spec == Init /\ [][Next]_vars

\* a step of Scheduler::run after its entry
RunStep == NextSystem \/ Accesses \/ RetrieveStep \/ Call \/ RunEnd

\* run is synchronous code and every closure returns: once entered, run
\* keeps taking its steps
FairSpec == Spec /\ WF_vars(RunStep)

(* ------------- the unchecked scheduler of chapter3/src/unsafe.rs -------- *)
\* every store over the given key set
AllStores(keys) ==
    { { [ty |-> t, val |-> f[t]] : t \in keys } : f \in [keys -> Vals] }

\* two views of one type of which one is exclusive: references that
\* alias, which the unchecked scheduler hands out all the same
Aliasing(vs) ==
    \E i, j \in DOMAIN vs :
        i # j /\ vs[i].ty = vs[j].ty /\ vs[i].mode = Write

\* Res::retrieve / ResMut::retrieve of unsafe.rs
Unsafe_retrieve(map, p) == [ty |-> p.ty, mode |-> p.mode]

\* impl_system::run of unsafe.rs: retrieve every parameter, call the
\* closure.  The outcomes of one system: a panic of the index when a key
\* is absent, any result when the views alias (undefined behaviour), the
\* result of the closure otherwise.
Unsafe_system_run(map, s) ==
    IF \E n \in DOMAIN s : ~ContainsKey(map, s[n].ty)
    THEN { [kind |-> "missing", obs |-> << >>, store |-> map] }
    ELSE LET vs == [n \in 1 .. Len(s) |-> Unsafe_retrieve(map, s[n])]
         IN  IF Aliasing(vs)
             THEN { [kind |-> "completed", obs |-> o, store |-> st] :
                      o \in [1 .. Len(s) -> Vals],
                      st \in AllStores({ e.ty : e \in map }) }
             ELSE { [kind |-> "completed", obs |-> Observe(map, vs),
                     store |-> CallBody(map, vs, 1)] }

RECURSIVE Unsafe_run(_, _, _)
\* Scheduler::run of unsafe.rs from system k on: the outcomes of the loop
Unsafe_run(map, syss, k) ==
    IF k > Len(syss)
    THEN { [kind |-> "completed", calls |-> << >>, store |-> map] }
    ELSE UNION {
           IF r.kind = "missing"
           THEN { [kind |-> "missing", calls |-> << >>, store |-> map] }
           ELSE { [kind  |-> q.kind,
                   calls |-> << [sys |-> k, obs |-> r.obs] >> \o q.calls,
                   store |-> q.store] :
                    q \in Unsafe_run(r.store, syss, k + 1) } :
           r \in Unsafe_system_run(map, syss[k]) }

(* ------- the RefCell scheduler of chapter3/src/interior_mutability.rs --- *)
\* the parameter counts System and IntoSystem are implemented for
RefCellArities == {1, 2}

\* the borrow flag of a RefCell: 0 when unused, the number of Ref alive
\* when positive, negative while a RefMut is alive
RefCell_unused == [t \in Types |-> 0]

\* RefCell::borrow: panics while a RefMut is alive
RefCell_borrow(flag) ==
    IF flag >= 0 THEN [ok |-> TRUE, flag |-> flag + 1]
    ELSE [ok |-> FALSE, flag |-> flag]

\* RefCell::borrow_mut: panics while any Ref or RefMut is alive
RefCell_borrow_mut(flag) ==
    IF flag = 0 THEN [ok |-> TRUE, flag |-> 0 - 1]
    ELSE [ok |-> FALSE, flag |-> flag]

\* Res::retrieve / ResMut::retrieve of interior_mutability.rs:
\* resources.get(T).unwrap().borrow() or .borrow_mut()
RefCell_retrieve(map, flags, p) ==
    IF ~ContainsKey(map, p.ty)
    THEN [kind |-> "missing", flags |-> flags]
    ELSE LET b == IF p.mode = Read THEN RefCell_borrow(flags[p.ty])
                  ELSE RefCell_borrow_mut(flags[p.ty])
         IN  IF b.ok
             THEN [kind |-> "ok", flags |-> [flags EXCEPT ![p.ty] = b.flag]]
             ELSE [kind |-> "borrow", flags |-> flags]

RECURSIVE RefCell_retrieve_from(_, _, _, _)
\* let _0 = T1::retrieve(resources); let _1 = T2::retrieve(resources):
\* the parameters from i on, each while the views before it are alive
RefCell_retrieve_from(map, flags, s, i) ==
    IF i > Len(s) THEN "ok"
    ELSE LET r == RefCell_retrieve(map, flags, s[i])
         IN  IF r.kind = "ok"
             THEN RefCell_retrieve_from(map, r.flags, s, i + 1)
             ELSE r.kind

\* System::run of interior_mutability.rs: retrieve the parameters, call the
\* closure; all views are dropped when run returns or unwinds
RefCell_system_run(map, s) ==
    LET r == RefCell_retrieve_from(map, RefCell_unused, s, 1)
        vs == [n \in 1 .. Len(s) |-> [ty |-> s[n].ty, mode |-> s[n].mode]]
    IN  IF r = "ok"
        THEN [kind |-> "completed", store |-> CallBody(map, vs, 1)]
        ELSE [kind |-> r, store |-> map]

RECURSIVE RefCell_run(_, _, _)
\* Scheduler::run of interior_mutability.rs from system k on
RefCell_run(map, syss, k) ==
    IF k > Len(syss) THEN [kind |-> "completed", store |-> map]
    ELSE LET r == RefCell_system_run(map, syss[k])
         IN  IF r.kind = "completed"
             THEN RefCell_run(r.store, syss, k + 1)
             ELSE r

\* a round of the RefCell scheduler over the given systems: there is none
\* when a system has a parameter count add_system does not accept
RefCell_round(map, syss) ==
    IF \E k \in DOMAIN syss : Len(syss[k]) \notin RefCellArities
    THEN [kind |-> "unsupported", store |-> map]
    ELSE RefCell_run(map, syss, 1)

(* ============================ properties =============================== *)
\* the live views of type t held in mode m
LiveViews(t, m) ==
    { i \in DOMAIN views : views[i].ty = t /\ views[i].mode = m }

\* C1: aliasing safety.  In every reachable state and for every type, at
\* most one exclusive (ResMut) view of the type is live, and while one is
\* live no shared (Res) view of the type is live.
C1_AliasingSafety ==
    \A t \in Types :
        /\ Cardinality(LiveViews(t, Write)) <= 1
        /\ LiveViews(t, Write) # {} => LiveViews(t, Read) = {}

\* a closure is about to run with an exclusive view and three shared views
C1_Witness ==
    /\ phase = "Call"
    /\ Len(views) = MaxArity
    /\ LiveViews("B", Write) # {}
    /\ Cardinality(LiveViews("A", Read)) = 3

\* the positions of the round's accesses calls for type t
DeclaredFor(t) == { i \in AccessesAt : trace[i].ty = t }

\* C2: when a round completes, the accesses declared in it are conflict
\* free: for every type either every declaration was Read, or there was
\* exactly one declaration and it was Write.
C2_CompletedRoundConflictFree ==
    (RoundOver /\ outcome.kind = "completed") =>
        \A t \in Types :
            \/ \A i \in DeclaredFor(t) : trace[i].mode = Read
            \/ /\ Cardinality(DeclaredFor(t)) = 1
               /\ \A i \in DeclaredFor(t) : trace[i].mode = Write

\* a completed round of two systems with one Write declaration of B and
\* several Read declarations of A
C2_Witness ==
    /\ RoundOver
    /\ outcome.kind = "completed"
    /\ Len(systems) = 2
    /\ Cardinality(DeclaredFor("A")) >= 2
    /\ \E i \in DeclaredFor("B") : trace[i].mode = Write

Max(a, b) == IF a >= b THEN a ELSE b

\* C3: if in one round a system declares an exclusive view of T and another
\* system declares a shared or exclusive view of T, the round fails with a
\* conflict error naming T, and neither the closure of the system that made
\* the later of the two declarations nor any closure after it is called.
C3_WriteReadConflict ==
    \A i, j \in AccessesAt :
        ( /\ trace[i].sys # trace[j].sys
          /\ trace[i].ty = trace[j].ty
          /\ trace[i].mode = Write )
        => /\ outcome.kind = "conflict"
           /\ outcome.ty = trace[i].ty
           /\ \A c \in CallAt :
                  trace[c].sys < Max(trace[i].sys, trace[j].sys)

\* a round in which system 1 wrote A through its exclusive view, ran, and
\* system 2 then failed its declaration of A
C3_Witness ==
    /\ outcome.kind = "conflict"
    /\ outcome.ty = "A"
    /\ outcome.sys = 2
    /\ \E i, j \in AccessesAt :
          /\ trace[i].sys = 1 /\ trace[j].sys = 2
          /\ trace[i].ty = "A" /\ trace[j].ty = "A"
          /\ trace[i].mode = Write /\ trace[i].ok
    /\ \E c \in CallAt : trace[c].sys = 1

\* C4 as stated: in a round that aborts with a conflict error no parameter
\* of any system of the round has been materialized before the abort.
C4_NoRetrieveBeforeConflictAbort ==
    outcome.kind = "conflict" =>
        \A r \in RetrieveAt : ~trace[r].ok

\* C4, amended: in a round that aborts with a conflict error at system k,
\* no parameter of system k has been materialized, and every accesses call
\* of a system precedes every materialization of that same system; the
\* systems before k have been materialized in full.
C4_DeclareBeforeMaterializePerSystem ==
    /\ \A a \in AccessesAt, r \in RetrieveAt :
           trace[a].sys = trace[r].sys => a < r
    /\ outcome.kind = "conflict" =>
           /\ \A r \in RetrieveAt : trace[r].sys < outcome.sys
           /\ \A k \in 1 .. (outcome.sys - 1) :
                  \A n \in 1 .. Len(systems[k]) :
                      \E r \in RetrieveAt :
                          /\ trace[r].sys = k /\ trace[r].idx = n
                          /\ trace[r].ok

\* a round aborted by a conflict at system 2 after the two parameters of
\* system 1 were declared and materialized
C4_Witness ==
    /\ outcome.kind = "conflict"
    /\ outcome.sys = 2
    /\ Len(systems[1]) >= 2
    /\ \E r \in RetrieveAt : trace[r].sys = 1 /\ trace[r].idx = 2

\* C5: every materialization of a view of type T in mode m is preceded, in
\* the same round, by a successful accesses call for exactly (T, m), and at
\* the materialization the ledger maps T to m.
C5_RecordBeforeRetrieve ==
    \A r \in RetrieveAt :
        trace[r].ok =>
            /\ trace[r].held = trace[r].mode
            /\ \E a \in AccessesAt :
                  /\ a < r
                  /\ trace[a].ok
                  /\ trace[a].ty = trace[r].ty
                  /\ trace[a].mode = trace[r].mode

\* both a shared and an exclusive view have been materialized in one round
C5_Witness ==
    /\ \E r \in RetrieveAt : trace[r].ok /\ trace[r].mode = Read
    /\ \E r \in RetrieveAt : trace[r].ok /\ trace[r].mode = Write

\* C6: after a round that completes the ledger is empty, and a second
\* consecutive round over the same systems then completes too, calling the
\* same closures in the same order, without seeing a ledger entry of the
\* first round.
C6_LedgerReset ==
    /\ (phase = "Idle" /\ outcome.kind = "completed") =>
           accesses = EmptyAccessMap
    /\ (prev.kind = "completed" /\ prev.same) =>
           /\ entryAccesses = EmptyAccessMap
           /\ phase = "Idle" =>
                  (outcome.kind = "completed"
                     /\ outcome.invoked = prev.invoked)

\* the second of two consecutive completed rounds over the same two systems,
\* one of which declares a Write
C6_Witness ==
    /\ phase = "Idle"
    /\ outcome.kind = "completed"
    /\ prev.kind = "completed"
    /\ prev.same
    /\ outcome.invoked = << 1, 2 >>
    /\ \E a \in AccessesAt : trace[a].mode = Write

\* C7 as stated: whenever run is entered the ledger is empty, whatever the
\* outcome of the round before.
C7_LedgerEmptyAtEveryEntry ==
    phase # "Idle" => entryAccesses = EmptyAccessMap

\* C7, amended: the ledger is empty when run is entered for the first time
\* and when it is entered after a round that completed; after a round that
\* was aborted by a conflict or a missing resource run is entered with the
\* entries the aborted round left, which are never none.
C7_LedgerEmptyAtEntryAfterCompletion ==
    phase # "Idle" =>
        /\ prev.kind \in {"none", "completed"} =>
               entryAccesses = EmptyAccessMap
        /\ prev.kind \in {"conflict", "missing"} =>
               entryAccesses # EmptyAccessMap

\* run has been entered after a completed round that had declared a Write
\* and a Read, and the new round is under way
C7_Witness ==
    /\ prev.kind = "completed"
    /\ prev.invoked # << >>
    /\ phase = "Accesses"
    /\ entryAccesses = EmptyAccessMap
    /\ \E i \in 1 .. Len(systems) : \E n \in 1 .. Len(systems[i]) :
          systems[i][n].mode = Write

\* the parameter list s holds the parameter type p
HasParam(s, p) == \E n \in DOMAIN s : s[n] = p

\* the store the increments of the closures of systems 1..k make of the
\* store the round started with
ExpectedStore(k) ==
    { [ty |-> e.ty,
       val |-> (e.val + Cardinality({ i \in 1 .. k :
                           HasParam(systems[i], ResMut(e.ty)) })) % NumVals]
      : e \in roundStart }

\* the value ExpectedStore(k) holds for type t
ExpectedVal(k, t) == (CHOOSE e \in ExpectedStore(k) : e.ty = t).val

\* C8 as stated, on its own example: system i-1 increments a type through
\* an exclusive view and system i has a shared view of the type; the
\* closure of system i is called in the same round and reads the
\* incremented value.
C8_IncrementSeenInSameRound ==
    RoundOver =>
        \A i \in 2 .. Len(systems) : \A t \in Types :
            ( /\ HasParam(systems[i - 1], ResMut(t))
              /\ HasParam(systems[i], Res(t))
              /\ \E c \in CallAt : trace[c].sys = i - 1 )
            => \E c \in CallAt :
                  /\ trace[c].sys = i
                  /\ \A n \in DOMAIN systems[i] :
                         systems[i][n] = Res(t) =>
                             trace[c].obs[n] = ExpectedVal(i - 1, t)

\* C8, amended: in a round that completes the closure of each registered
\* system is called exactly once, in registration order, and system i is
\* called on the store as the closures of systems 1..i-1 left it and reads
\* its views from that store; no system of a completed round has a view of
\* a type that an earlier system of the round held an exclusive view of.
C8_OrderedCallsOnSequentialStore ==
    (RoundOver /\ outcome.kind = "completed") =>
        /\ Invoked = [i \in 1 .. Len(systems) |-> i]
        /\ \A c \in CallAt :
              /\ trace[c].pre = ExpectedStore(trace[c].sys - 1)
              /\ trace[c].post = ExpectedStore(trace[c].sys)
              /\ \A n \in DOMAIN systems[trace[c].sys] :
                     trace[c].obs[n] =
                         ExpectedVal(trace[c].sys - 1,
                                     systems[trace[c].sys][n].ty)
        /\ \A c, d \in CallAt :
              c < d =>
                  \A n \in DOMAIN trace[c].views :
                      trace[c].views[n].mode = Write =>
                          \A m \in DOMAIN trace[d].views :
                              trace[d].views[m].ty # trace[c].views[n].ty

\* a completed round of two systems: the first incremented A, the second
\* was called after it on the store holding the increment and wrote B
C8_Witness ==
    /\ RoundOver
    /\ outcome.kind = "completed"
    /\ Invoked = << 1, 2 >>
    /\ HasParam(systems[1], ResMut("A"))
    /\ HasParam(systems[2], ResMut("B"))
    /\ \E c \in CallAt :
          /\ trace[c].sys = 2
          /\ trace[c].pre # roundStart
          /\ trace[c].post # trace[c].pre

\* C9: no rollback.  When a round aborts (conflict or missing resource) at
\* system k, the store holds exactly what the closures of systems 1..k-1
\* made of the store the round started with.
C9_NoRollback ==
    [][ (outcome.kind = "running" /\ outcome'.kind \in {"conflict", "missing"})
        => /\ resources' = ExpectedStore(outcome'.sys - 1)
           /\ \A c \in CallAt : trace[c].sys < outcome'.sys ]_vars

\* a round aborted by a missing resource at system 2 after the closure of
\* system 1 changed the store
C9_Witness ==
    /\ RoundOver
    /\ outcome.kind = "missing"
    /\ outcome.sys = 2
    /\ \E c \in CallAt : trace[c].post # trace[c].pre
    /\ resources # roundStart

\* the entries the map holds for type t
EntriesOf(map, t) == { e \in map : e.ty = t }

\* C10: the store holds at most one entry per type; add_resource of type T
\* with value v never fails, leaves T mapped to v alone (inserting or
\* replacing) and leaves the entries of every other type unchanged; a shared
\* view of T taken with no exclusive write in between reads the value added
\* last.
C10_StoreOverwrite ==
    /\ [](\A t \in Types : Cardinality(EntriesOf(resources, t)) <= 1)
    /\ [](phase = "Idle" =>
             \A t \in Types, v \in Vals : ENABLED AddResource(t, v))
    /\ [](\A c \in CallAt :
             c = Len(trace) /\ phase = "Loop" =>
                 \A n \in DOMAIN trace[c].views :
                     (trace[c].views[n].mode = Read
                        /\ lastAdded[trace[c].views[n].ty] # {})
                     => {trace[c].obs[n]} = lastAdded[trace[c].views[n].ty])
    /\ [][ \A t \in Types, v \in Vals :
             AddResource(t, v) =>
                 /\ EntriesOf(resources', t) = { [ty |-> t, val |-> v] }
                 /\ \A u \in Types \ {t} :
                        EntriesOf(resources', u) = EntriesOf(resources, u)
                 /\ outcome'.kind = outcome.kind
                 /\ phase' = "Idle" ]_vars

\* A was added twice with different values and a closure then read the
\* second value through a shared view
C10_Witness ==
    /\ phase = "Loop"
    /\ Len(trace) \in CallAt
    /\ lastAdded["A"] = {1}
    /\ \E n \in DOMAIN trace[Len(trace)].views :
          /\ trace[Len(trace)].views[n] = Res("A")
          /\ trace[Len(trace)].obs[n] = 1

\* the types the map holds an entry for
Keys(map) == { e.ty : e \in map }

\* no registered system has an exclusive view of type t
NoWriter(t) == \A k \in DOMAIN systems : ~HasParam(systems[k], ResMut(t))

\* every registered system takes shared views only
ReadersOnly ==
    \A k \in DOMAIN systems : \A n \in DOMAIN systems[k] :
        systems[k][n].mode = Read

\* C11: Read/Read compatibility.  When no system takes an exclusive view of
\* T, no declaration of T raises a conflict error however many systems take
\* shared views of T, and every shared view of T reads the same value; a
\* round of systems that take shared views only, of types held by the
\* store, completes with every closure called.
C11_ReadReadCompatible ==
    /\ \A t \in Types :
          (~touched /\ NoWriter(t)) =>
              /\ \A a \in AccessesAt : trace[a].ty = t => trace[a].ok
              /\ outcome.kind = "conflict" => outcome.ty # t
              /\ \A c \in CallAt : \A n \in DOMAIN trace[c].views :
                     trace[c].views[n].ty = t =>
                         [ty |-> t, val |-> trace[c].obs[n]] \in roundStart
    /\ ( /\ RoundOver
         /\ ReadersOnly
         /\ \A k \in DOMAIN systems : \A n \in DOMAIN systems[k] :
                systems[k][n].ty \in Keys(roundStart) )
       => /\ outcome.kind = "completed"
          /\ outcome.invoked = [k \in 1 .. Len(systems) |-> k]

\* a completed second round of two systems that both read A, which holds 1,
\* through shared views
C11_Witness ==
    /\ RoundOver
    /\ outcome.kind = "completed"
    /\ prev.kind = "completed"
    /\ Len(systems) = 2
    /\ \A k \in DOMAIN systems : HasParam(systems[k], Res("A"))
    /\ Cardinality(CallAt) = 2
    /\ \A c \in CallAt : \E n \in DOMAIN trace[c].views :
          trace[c].views[n] = Res("A") /\ trace[c].obs[n] = 1

\* C12: the record policy.  For every ledger, type T and mode m: with T
\* absent the call inserts T -> m and succeeds; with T held as Read and m
\* Read it succeeds and leaves the ledger as it is; with T held as Read and
\* m Write, or T held as Write, it raises a conflict error.  The entries of
\* every other type are unchanged in all cases.
C12_RecordPolicy ==
    \A a \in AccessesAt :
        LET e == trace[a]
            held == e.before[e.ty]
        IN /\ held = None =>
                  (e.ok /\ e.after = [e.before EXCEPT ![e.ty] = e.mode])
           /\ (held = Read /\ e.mode = Read) =>
                  (e.ok /\ e.after = e.before)
           /\ (held = Read /\ e.mode = Write) => ~e.ok
           /\ held = Write => ~e.ok
           /\ \A u \in Types \ {e.ty} : e.after[u] = e.before[u]

\* one round recorded Read on an absent type, Read over Read, Write on
\* another absent type and then failed to record Write over Read
C12_Witness ==
    /\ \E a \in AccessesAt :
          trace[a].before[trace[a].ty] = None /\ trace[a].mode = Read
    /\ \E a \in AccessesAt :
          trace[a].before[trace[a].ty] = Read /\ trace[a].mode = Read
    /\ \E a \in AccessesAt :
          trace[a].before[trace[a].ty] = None /\ trace[a].mode = Write
    /\ \E a \in AccessesAt :
          /\ trace[a].before[trace[a].ty] = Read /\ trace[a].mode = Write
          /\ ~trace[a].ok

\* the accesses calls of the round that succeeded for type t
RecordedFor(t) == { a \in AccessesAt : trace[a].ty = t /\ trace[a].ok }

\* C13: whole-round strictness.  While a round runs the ledger is never
\* cleared or shrunk: it holds every declaration that succeeded in the
\* round so far (and, for the other types, what it held on entry).  So when
\* system A has taken an exclusive view of T and a later system B declares
\* an exclusive view of T, B's declaration fails with a conflict error on T
\* although A's closure has returned and no view is live.
C13_WholeRoundLedger ==
    /\ outcome.kind = "running" =>
           \A t \in Types :
               /\ \A a \in RecordedFor(t) : accesses[t] = trace[a].mode
               /\ RecordedFor(t) = {} => accesses[t] = entryAccesses[t]
    /\ \A a, b \in AccessesAt :
           ( /\ a < b
             /\ trace[a].sys < trace[b].sys
             /\ trace[a].ty = trace[b].ty
             /\ trace[a].mode = Write /\ trace[a].ok
             /\ trace[b].mode = Write )
           => /\ ~trace[b].ok
              /\ outcome.kind = "conflict"
              /\ outcome.ty = trace[a].ty
              /\ outcome.sys = trace[b].sys
              /\ views = << >>
              /\ \E c \in CallAt :
                     a < c /\ c < b /\ trace[c].sys = trace[a].sys

\* system 1 wrote A through its exclusive view and returned, system 2 then
\* failed to declare its own exclusive view of A
C13_Witness ==
    /\ RoundOver
    /\ outcome.kind = "conflict"
    /\ outcome.msg = "mutably twice"
    /\ outcome.sys = 2
    /\ systems[1] = << ResMut("A") >>
    /\ systems[2] = << ResMut("A") >>
    /\ \E c \in CallAt : trace[c].sys = 1 /\ trace[c].post # trace[c].pre

\* C14: within one invocation of run the ledger is cleared once, by the
\* step that completes the round, after the closure of the last registered
\* system has returned; no other step of a round, the aborting one
\* included, removes a ledger entry.
C14_ClearTiming ==
    /\ [][ (outcome.kind = "running" /\ outcome'.kind = "completed")
           => /\ accesses' = EmptyAccessMap
              /\ Invoked = [k \in 1 .. Len(systems) |-> k]
              /\ views = << >> ]_vars
    /\ [][ ((phase # "Idle" \/ phase' # "Idle")
              /\ outcome'.kind # "completed")
           => \A t \in Types : accesses[t] # None => accesses'[t] # None ]_vars

\* a round of two systems has completed: both closures were called, the
\* ledger had been entered with nothing and is empty again
C14_Witness ==
    /\ RoundOver
    /\ outcome.kind = "completed"
    /\ outcome.invoked = << 1, 2 >>
    /\ Cardinality(AccessesAt) >= 3
    /\ accesses = EmptyAccessMap

\* system k was reached by the round: one of its calls is in the trace
Reached(k) == \E i \in DOMAIN trace : trace[i].sys = k

\* system k has a parameter whose type the store did not hold in the round
HasMissingParam(k) ==
    \E n \in DOMAIN systems[k] : systems[k][n].ty \notin Keys(roundStart)

\* the round ended with a missing-resource error at system k: its closure
\* and those after it were not called, those before it were
MissingAbortAt(k) ==
    /\ outcome.kind = "missing"
    /\ outcome.sys = k
    /\ outcome.ty \notin Keys(roundStart)
    /\ Len(trace) \in RetrieveAt
    /\ ~trace[Len(trace)].ok
    /\ trace[Len(trace)].sys = k
    /\ outcome.invoked = [i \in 1 .. (k - 1) |-> i]

\* C15 as stated: a system reached during a round with a parameter of a
\* type never inserted ends the round with a missing-resource error at its
\* materialization step.
C15_MissingResourceWhenReached ==
    RoundOver =>
        \A k \in DOMAIN systems :
            (Reached(k) /\ HasMissingParam(k)) => MissingAbortAt(k)

\* C15, amended: a system reached during a round with a parameter of a type
\* never inserted, all of whose declarations succeed, ends the round with a
\* missing-resource error at its materialization step, naming the first of
\* its parameters whose type is missing; its closure and those of later
\* systems are not called, those of the systems before it have been.  When
\* one of its declarations conflicts the round ends with the conflict error
\* instead.
C15_MissingResourceAfterDeclarations ==
    RoundOver =>
        \A k \in DOMAIN systems :
            (Reached(k) /\ HasMissingParam(k)) =>
                LET failed == { a \in AccessesAt :
                                  trace[a].sys = k /\ ~trace[a].ok }
                    first == CHOOSE n \in DOMAIN systems[k] :
                        /\ systems[k][n].ty \notin Keys(roundStart)
                        /\ \A m \in 1 .. (n - 1) :
                               systems[k][m].ty \in Keys(roundStart)
                IN IF failed = {}
                   THEN /\ MissingAbortAt(k)
                        /\ outcome.ty = systems[k][first].ty
                        /\ trace[Len(trace)].idx = first
                        /\ \A n \in DOMAIN systems[k] :
                               \E a \in AccessesAt :
                                   /\ trace[a].sys = k /\ trace[a].idx = n
                                   /\ trace[a].ok
                   ELSE /\ outcome.kind = "conflict"
                        /\ outcome.sys = k
                        /\ RetrieveAt \cap { i \in DOMAIN trace :
                                                trace[i].sys = k } = {}

\* system 1 was called, system 2 declared its two parameters and failed to
\* materialize the second, whose type B the store does not hold
C15_Witness ==
    /\ RoundOver
    /\ MissingAbortAt(2)
    /\ outcome.ty = "B"
    /\ trace[Len(trace)].idx = 2
    /\ \E c \in CallAt : trace[c].sys = 1

\* the modes a conflict message names
ModesNamed(msg) ==
    IF msg = "mutably twice" THEN << Write, Write >>
    ELSE IF msg = "mutably and immutably" THEN << Read, Write >>
    ELSE IF msg = "assertion left == right failed: mutably and immutably, left: Write, right: Read"
         THEN << Write, Read >>
    ELSE << None, None >>

\* C16: every conflict error names the offending type and the two modes in
\* conflict, the one held in the ledger and the one requested, in each of
\* the cases Read then Write, Write then Read and Write then Write.
C16_ConflictDiagnostic ==
    \A a \in AccessesAt :
        ~trace[a].ok =>
            /\ a = Len(trace)
            /\ outcome.kind = "conflict"
            /\ outcome.ty = trace[a].ty
            /\ ModesNamed(outcome.msg) =
                   << trace[a].before[trace[a].ty], trace[a].mode >>

\* a shared view was declared over a held Write: the assertion of
\* Res::accesses failed
C16_Witness ==
    /\ RoundOver
    /\ outcome.kind = "conflict"
    /\ ModesNamed(outcome.msg) = << Write, Read >>
    /\ trace[Len(trace)].mode = Read
    /\ trace[Len(trace)].before[outcome.ty] = Write

\* C17: registration performs no validation.  add_system always succeeds
\* and appends the system at the end of the list, leaving the systems
\* registered before, the store and the ledger as they are, also when the
\* parameters of the new system name types the store does not hold or
\* conflict with registered systems; conflict and missing-resource errors
\* are raised by run only.
C17_RegistrationUnvalidated ==
    /\ []((phase = "Idle" /\ Len(systems) < MaxSystems) =>
             \A s \in SystemCatalogue : ENABLED AddSystem(s))
    /\ [][ \A s \in SystemCatalogue :
             AddSystem(s) =>
                 /\ systems' = systems \o << s >>
                 /\ resources' = resources
                 /\ accesses' = accesses
                 /\ phase' = "Idle"
                 /\ outcome'.kind = outcome.kind ]_vars
    /\ [][ (outcome'.kind \in {"conflict", "missing"}
              /\ outcome'.kind # outcome.kind)
           => outcome.kind = "running" ]_vars

\* a system was registered whose parameters conflict with the system
\* registered before it and name a type the store does not hold; no round
\* has been run since
C17_Witness ==
    /\ phase = "Idle"
    /\ sysChanged
    /\ outcome.kind = "completed"
    /\ Len(systems) = 2
    /\ systems[1] = << ResMut("A") >>
    /\ systems[2] = << Res("A"), Res("B") >>
    /\ "B" \notin Keys(resources)

\* C18: store entries live as long as the scheduler.  A type held by the
\* store is held in every later state, and no step of run (completing or
\* aborting) adds or removes a store entry or changes the system list.
C18_StoreEntriesPersist ==
    /\ [][ Keys(resources) \subseteq Keys(resources') ]_vars
    /\ [][ (phase # "Idle" \/ phase' # "Idle")
           => /\ Keys(resources') = Keys(resources)
              /\ systems' = systems ]_vars

\* in the round after a round aborted for a missing resource a closure is
\* about to be called with a view of an entry the aborted round also used
C18_Witness ==
    /\ prev.kind = "missing"
    /\ phase = "Call"
    /\ LiveViews("A", Read) # {}
    /\ "B" \notin Keys(resources)

\* the events of system k in the record of the round, in order
EventsOf(k) ==
    LET OfK(e) == e.sys = k
    IN  SelectSeq(trace, OfK)

\* C19: System.run step order.  For a system with parameters p1..pn the
\* steps taken are a prefix of accesses(p1)..accesses(pn),
\* retrieve(p1)..retrieve(pn), call: parameters are declared in declaration
\* order, retrieved in the same order only after all n declarations
\* succeeded, a failed step is the last one, and the closure is called at
\* most once, after all n retrievals, with the views bound positionally.
C19_SystemRunStepOrder ==
    \A k \in 1 .. Len(systems) :
        LET es == EventsOf(k)
            n == Len(systems[k])
        IN  /\ Len(es) <= 2 * n + 1
            /\ \A j \in 1 .. Len(es) :
                   /\ j <= n =>
                          /\ IsAccesses(es[j])
                          /\ es[j].idx = j
                          /\ es[j].ty = systems[k][j].ty
                          /\ es[j].mode = systems[k][j].mode
                   /\ (n < j /\ j <= 2 * n) =>
                          /\ IsRetrieve(es[j])
                          /\ es[j].idx = j - n
                          /\ es[j].ty = systems[k][j - n].ty
                          /\ es[j].mode = systems[k][j - n].mode
                   /\ j = 2 * n + 1 =>
                          /\ IsCall(es[j])
                          /\ Len(es[j].views) = n
                          /\ \A m \in 1 .. n :
                                 es[j].views[m] = Retrieve(es[j].pre,
                                                           systems[k][m])
                   /\ (j < Len(es) /\ ~IsCall(es[j])) => es[j].ok
            /\ (k < sysIdx \/ (phase = "Idle" /\ outcome.kind = "completed"
                                /\ ~touched))
                   => Len(es) = 2 * n + 1

\* the closure of a system with MaxArity parameters was called
C19_Witness ==
    \E c \in CallAt : Len(trace[c].views) = MaxArity

\* C20: callable frame.  The call of a closure changes only store entries
\* of types the system holds an exclusive view of: entries of types it
\* holds shared views of only, or no view of, are the same after the call,
\* no entry is added or removed, and the ledger and the system list are
\* unchanged.
C20_CallableFrame ==
    [][ Call =>
          /\ accesses' = accesses
          /\ systems' = systems
          /\ Keys(resources') = Keys(resources)
          /\ \A t \in Types :
                 LiveViews(t, Write) = {}
                     => EntriesOf(resources', t) = EntriesOf(resources, t) ]_vars

\* the last step was the call of a closure holding shared views of A and an
\* exclusive view of B, which changed B
C20_Witness ==
    /\ trace # << >>
    /\ LET e == trace[Len(trace)]
       IN  /\ IsCall(e)
           /\ \E i \in DOMAIN e.views : e.views[i] = Res("A")
           /\ \E i \in DOMAIN e.views : e.views[i] = ResMut("B")
           /\ EntriesOf(e.pre, "B") # EntriesOf(e.post, "B")
           /\ EntriesOf(e.pre, "A") = EntriesOf(e.post, "A")

\* C21: views are scoped to one invocation.  No view is live when the
\* scheduler is idle, between two systems and while a system declares its
\* accesses; the views live during the retrievals and the call of a system
\* are views retrieved for the parameters of that system.
C21_ViewsScopedToInvocation ==
    /\ phase \in {"Idle", "Loop", "Accesses"} => views = << >>
    /\ phase \in {"Retrieve", "Call"} =>
           /\ Len(views) = IF phase = "Call" THEN Len(systems[sysIdx])
                           ELSE paramIdx - 1
           /\ \A i \in DOMAIN views :
                  /\ views[i].ty = systems[sysIdx][i].ty
                  /\ views[i].mode = systems[sysIdx][i].mode
                  /\ \E r \in RetrieveAt :
                         /\ trace[r].sys = sysIdx
                         /\ trace[r].idx = i
                         /\ trace[r].ok

\* the second system declares its first access after the closure of the
\* first system, which held two or more views, returned
C21_Witness ==
    /\ phase = "Accesses"
    /\ sysIdx = 2
    /\ \E c \in CallAt : trace[c].sys = 1 /\ Len(trace[c].views) >= 2
    /\ views = << >>

\* C22: round termination.  Every round that was entered ends, completed
\* or aborted, and while a round runs one of its steps can be taken: run
\* never blocks.
C22_RoundTerminates ==
    /\ [](phase # "Idle" => ENABLED RunStep)
    /\ (outcome.kind = "running")
           ~> (phase = "Idle"
               /\ outcome.kind \in {"completed", "conflict", "missing"})
    /\ [](outcome.kind = "completed" /\ RoundOver =>
             /\ accesses = EmptyAccessMap
             /\ Len(outcome.invoked) = Len(systems))

\* a round over MaxSystems systems completed
C22_Witness ==
    /\ RoundOver
    /\ outcome.kind = "completed"
    /\ Len(systems) = MaxSystems
    /\ Len(outcome.invoked) = MaxSystems

\* the parameters declared before parameter i of system k, in (system,
\* parameter) order
Preceding(k, i) ==
    { q \in (1 .. Len(systems)) \X (1 .. MaxArity) :
        /\ q[2] <= Len(systems[q[1]])
        /\ (q[1] < k \/ (q[1] = k /\ q[2] < i)) }

\* the mode the ledger holds for type t when parameter i of system k is
\* declared, if no declaration before it conflicted
ExpectedHeld(k, i, t) ==
    IF \/ entryAccesses[t] = Write
       \/ \E q \in Preceding(k, i) : systems[q[1]][q[2]] = ResMut(t)
    THEN Write
    ELSE IF \/ entryAccesses[t] = Read
            \/ \E q \in Preceding(k, i) : systems[q[1]][q[2]] = Res(t)
         THEN Read
         ELSE None

\* the declaration of parameter i of system k conflicts with what is held
Conflicts(k, i) ==
    LET p == systems[k][i]
        h == ExpectedHeld(k, i, p.ty)
    IN  \/ (p.mode = Write /\ h # None)
        \/ (p.mode = Read /\ h = Write)

\* C23: exact abort prefix.  A round that aborted with a conflict aborted
\* at the first parameter, in (registration, declaration) order, whose
\* declaration conflicts with the ledger built so far, and the closures
\* called in the round are those of the systems registered before the
\* system of that parameter, each once, in order.
C23_ExactAbortPrefix ==
    (RoundOver /\ outcome.kind = "conflict") =>
        /\ trace # << >>
        /\ LET e == trace[Len(trace)]
           IN  /\ IsAccesses(e)
               /\ ~e.ok
               /\ e.sys = outcome.sys
               /\ e.ty = outcome.ty
               /\ Conflicts(e.sys, e.idx)
               /\ \A q \in Preceding(e.sys, e.idx) : ~Conflicts(q[1], q[2])
               /\ outcome.invoked = [j \in 1 .. (e.sys - 1) |-> j]
               /\ \A j \in 1 .. Len(systems) :
                      Cardinality({ c \in CallAt : trace[c].sys = j })
                          = IF j < e.sys THEN 1 ELSE 0

\* a round aborted at the second parameter of the second system, after the
\* closure of the first system was called
C23_Witness ==
    /\ RoundOver
    /\ outcome.kind = "conflict"
    /\ outcome.sys = 2
    /\ outcome.invoked = << 1 >>
    /\ trace[Len(trace)].idx = 2

\* C24: a failed record leaves the ledger unchanged.  When a declaration
\* raises a conflict error the ledger at the error is the ledger just
\* before the declaration was attempted.
C24_FailedRecordLeavesLedger ==
    \A a \in AccessesAt :
        ~trace[a].ok => trace[a].after = trace[a].before

\* mode m may be recorded over the held mode h
Compatible(h, m) == h = None \/ (h = Read /\ m = Read)

\* C25: conflict precedes missing-resource.  Whether a declaration
\* succeeds depends on the ledger alone: for a type the store does not
\* hold it succeeds and is recorded just as for a type it holds.  A
\* reached system with a conflicting parameter and a parameter of a type
\* missing from the store ends the round with the conflict error, and
\* after a missing-resource abort the ledger holds every declaration of
\* the aborted system.
C25_ConflictPrecedesMissing ==
    /\ \A a \in AccessesAt :
           LET e == trace[a]
           IN  /\ e.ok <=> Compatible(e.before[e.ty], e.mode)
               /\ e.ok => e.after[e.ty] = e.mode
    /\ RoundOver =>
           \A k \in DOMAIN systems :
               ( /\ Reached(k)
                 /\ HasMissingParam(k)
                 /\ \E i \in DOMAIN systems[k] : Conflicts(k, i) )
               => /\ outcome.kind = "conflict"
                  /\ outcome.sys = k
                  /\ IsAccesses(trace[Len(trace)])
    /\ (RoundOver /\ outcome.kind = "missing") =>
           \A n \in DOMAIN systems[outcome.sys] :
               accesses[systems[outcome.sys][n].ty]
                   = systems[outcome.sys][n].mode

\* a round was aborted because the store does not hold B, the type of the
\* first parameter of the aborted system; the ledger holds the Write
\* declared for B and the Read declared for A after it
C25_Witness ==
    /\ RoundOver
    /\ outcome.kind = "missing"
    /\ outcome.ty = "B"
    /\ systems[outcome.sys][1] = ResMut("B")
    /\ "B" \notin Keys(resources)
    /\ accesses = [t \in Types |-> IF t = "B" THEN Write ELSE Read]

\* parameter list s holds an exclusive view of a type together with
\* another view of the same type
SelfConflicting(s) ==
    \E i, j \in DOMAIN s :
        i # j /\ s[i].ty = s[j].ty /\ s[i].mode = Write

\* parameter list s holds two or more shared views of one type
SharedTwice(s) ==
    \E i, j \in DOMAIN s : i # j /\ s[i] = s[j] /\ s[i].mode = Read

\* C26: intra-system conflict.  The closure of a system whose parameter
\* list holds an exclusive view of T and another view of T is never
\* called: every round that reaches the system, and so every round when
\* it is the only system, ends with a conflict error raised by one of
\* its declarations, before any of its parameters is retrieved.  A shared
\* view declared after a shared view of the same type in the same system
\* never conflicts, and a system with two or more shared views of one type
\* is called when it is reached, the store holds its types and none of
\* its declarations conflicts with what other declarations left.
C26_IntraSystemConflict ==
    /\ \A c \in CallAt : ~SelfConflicting(systems[trace[c].sys])
    /\ RoundOver =>
           \A k \in DOMAIN systems :
               (SelfConflicting(systems[k]) /\ (Reached(k) \/ k = 1)) =>
                   /\ outcome.kind = "conflict"
                   /\ outcome.sys = k
                   /\ IsAccesses(trace[Len(trace)])
                   /\ \A r \in RetrieveAt : trace[r].sys # k
    /\ \A a \in AccessesAt :
           LET e == trace[a]
           IN  ( /\ e.mode = Read
                 /\ \E j \in 1 .. (e.idx - 1) :
                        systems[e.sys][j] = Res(e.ty) )
               => (e.ok /\ e.after = e.before)
    /\ RoundOver =>
           \A k \in DOMAIN systems :
               ( /\ SharedTwice(systems[k])
                 /\ Reached(k)
                 /\ ~HasMissingParam(k)
                 /\ \A i \in DOMAIN systems[k] : ~Conflicts(k, i) )
               => Cardinality({ c \in CallAt : trace[c].sys = k }) = 1

\* the closure of a system with two shared views of A was called, then the
\* round was aborted by the system after it, which holds an exclusive
\* view and a shared view of A
C26_Witness ==
    /\ RoundOver
    /\ Len(systems) = 2
    /\ SharedTwice(systems[1])
    /\ systems[2] = << ResMut("A"), Res("A") >>
    /\ outcome.kind = "conflict"
    /\ outcome.sys = 2
    /\ outcome.invoked = << 1 >>

\* C27: empty cases.  A system without parameters has no accesses and no
\* retrieve step; once the loop reaches it its closure is called, whatever
\* the ledger holds, with no views, and that call leaves the ledger and the
\* store as they are.  A round over an empty system list completes with
\* the store as at entry and the ledger empty.
C27_EmptyCases ==
    /\ [](\A k \in DOMAIN systems :
             systems[k] = << >> =>
                 /\ \A i \in DOMAIN trace :
                        trace[i].sys = k =>
                            /\ IsCall(trace[i])
                            /\ trace[i].views = << >>
                            /\ trace[i].post = trace[i].pre
                 /\ (k < sysIdx \/ (k = sysIdx /\ phase = "Loop"))
                        => Cardinality({ c \in CallAt : trace[c].sys = k }) = 1)
    /\ [][ (NextSystem /\ systems[sysIdx'] = << >>)
              => (phase' = "Call" /\ accesses' = accesses) ]_vars
    /\ [](phase = "Call" => ENABLED Call)
    /\ [][ (Call /\ systems[sysIdx] = << >>)
              => (accesses' = accesses /\ resources' = resources) ]_vars
    /\ []((RoundOver /\ systems = << >>) =>
             /\ outcome.kind = "completed"
             /\ trace = << >>
             /\ resources = roundStart
             /\ accesses = EmptyAccessMap)

\* the closure of a system without parameters, registered after a system
\* with parameters, has just been called while the ledger holds the
\* accesses of the system before it
C27_Witness ==
    /\ phase = "Loop"
    /\ sysIdx = 2
    /\ systems[2] = << >>
    /\ Len(trace) \in CallAt
    /\ trace[Len(trace)].sys = 2
    /\ accesses # EmptyAccessMap
    /\ resources # {}

\* the closures called in the round with what each read on entry
CallsOfRound ==
    LET cs == SelectSeq(trace, IsCall)
    IN  [c \in 1 .. Len(cs) |-> [sys |-> cs[c].sys, obs |-> cs[c].obs]]

\* C28: the ledger-checked scheduler refines the unchecked one.  For a
\* round the ledger-checked run completed, the unchecked run on the store
\* and the systems of that round has one outcome: it completes, calls the
\* same closures in the same order, each reading the same values, and ends
\* with the same store.
C28_RefinesUnchecked ==
    (RoundOver /\ outcome.kind = "completed") =>
        Unsafe_run(roundStart, systems, 1)
            = { [kind |-> "completed", calls |-> CallsOfRound,
                 store |-> resources] }

\* a completed round of two systems in which the second closure was called
\* on a store the first one had written
C28_Witness ==
    /\ RoundOver
    /\ outcome.kind = "completed"
    /\ Len(CallsOfRound) = 2
    /\ \E c \in CallAt : trace[c].sys = 2 /\ trace[c].pre # roundStart
    /\ \E c \in CallAt : trace[c].sys = 2 /\ trace[c].views # << >>

\* the ledger rejected the round for a conflict although no system holds
\* conflicting views by itself and the store holds every type asked for
RejectedAcrossSystems ==
    /\ RoundOver
    /\ outcome.kind = "conflict"
    /\ \A k \in DOMAIN systems :
           ~SelfConflicting(systems[k]) /\ ~HasMissingParam(k)

\* C29 as stated: every round the ledger-checked scheduler accepts runs
\* without a borrow failure in the RefCell scheduler, with the same final
\* store, and the RefCell scheduler runs the rounds the ledger rejects for
\* a conflict between views of different systems.
C29_RefCellWeaker ==
    /\ (RoundOver /\ outcome.kind = "completed") =>
           RefCell_round(roundStart, systems)
               = [kind |-> "completed", store |-> resources]
    /\ RejectedAcrossSystems =>
           RefCell_round(roundStart, systems).kind = "completed"

\* every system has a parameter count the RefCell scheduler accepts
RefCellSupported ==
    \A k \in DOMAIN systems : Len(systems[k]) \in RefCellArities

\* C29, amended: for systems of one or two parameters, every round the
\* ledger-checked scheduler accepts runs without a borrow failure in the
\* RefCell scheduler, with the same final store, and the RefCell scheduler
\* runs the rounds the ledger rejects for a conflict between views of
\* different systems, ending with the store the unchecked loop ends with.
C29_RefCellWeakerOnItsArities ==
    RefCellSupported =>
        /\ (RoundOver /\ outcome.kind = "completed") =>
               RefCell_round(roundStart, systems)
                   = [kind |-> "completed", store |-> resources]
        /\ RejectedAcrossSystems =>
               /\ RefCell_round(roundStart, systems).kind = "completed"
               /\ { q.store : q \in Unsafe_run(roundStart, systems, 1) }
                      = { RefCell_round(roundStart, systems).store }
        /\ (RoundOver /\ RefCell_round(roundStart, systems).kind = "borrow")
               => outcome.kind = "conflict"

\* the ledger rejected a round in which the first system holds an exclusive
\* view of A and the second a shared view of A; the RefCell scheduler runs
\* that round
C29_Witness ==
    /\ RoundOver
    /\ outcome.kind = "conflict"
    /\ outcome.sys = 2
    /\ outcome.ty = "A"
    /\ systems[1] = << ResMut("A") >>
    /\ Len(systems[2]) = 2
    /\ systems[2][1] = Res("A")
    /\ RejectedAcrossSystems
    /\ RefCell_round(roundStart, systems).kind = "completed"
====
